---- MODULE Spec2Model ----
(***************************************************************************)
(* A model of godash's board analysis (src/src/analysis.js): adjacency,    *)
(* groups, liberties, legality and capture on an immutable Go board.       *)
(*                                                                         *)
(* A board is the Immutable.js Map of the source: the key SIZE_KEY holds   *)
(* the size and one key per occupied position holds its color.  Here it is *)
(* the record [size, stones], stones being a function whose domain is the  *)
(* set of occupied positions.  A position is the List [x, y], here the     *)
(* tuple <<x, y>>.                                                         *)
(***************************************************************************)
EXTENDS Integers, FiniteSets, Sequences, TLC

\* ------------------------------------------------------------------ bounds
\* Sizes of the boards played on.
Sizes == {1, 2, 3}
\* addMove is called on boards of fewer than MaxStones stones.
MaxStones == 5
\* Largest board size of the adjacency check.
MaxAdjSize == 6
\* Most stones of the arbitrary boards the traversal is run on.
MaxGroupStones == 4

\* --------------------------------------------------------------- constants
BLACK == "black"
WHITE == "white"
\* null in the source.
EMPTY == "null"
\* An omitted argument.
UNDEFINED == "undefined"
Colors == {BLACK, WHITE}

NotAValidPosition == "Not a valid position"
AlreadyAStoneThere == "There is already a stone there"
MustPassInAColor == "Must pass in a color"
InvalidSize == "An empty board must be created from a positive integer."

\* ------------------------------------------------- Immutable.js Map and Set
Min(a, b) == IF a < b THEN a ELSE b
Max(a, b) == IF a > b THEN a ELSE b

\* What a throwing call leaves in place of a value.
NoBoard == [size |-> 0, stones |-> [q \in {} |-> BLACK]]

\* A call gives its caller a thrown string or a value.
Threw(message) == [threw |-> message, value |-> NoBoard]
Returned(value) == [threw |-> "", value |-> value]

\* Map().set(SIZE_KEY, size): no position key yet.
emptyBoard(size) ==
    IF size <= 0
    THEN Threw(InvalidSize)
    ELSE Returned([size |-> size, stones |-> [q \in {} |-> BLACK]])

\* board.get(position, EMPTY)
MapGet(board, position) ==
    IF position \in DOMAIN board.stones THEN board.stones[position] ELSE EMPTY

\* board.has(position)
MapHas(board, position) == position \in DOMAIN board.stones

\* board.set(position, color): a new Map, an existing key is overwritten.
MapSet(board, position, color) ==
    [size |-> board.size,
     stones |-> [q \in (DOMAIN board.stones) \cup {position} |->
                    IF q = position THEN color ELSE board.stones[q]]]

\* acc.delete(position): a new Map without the key.
MapDelete(board, position) ==
    [size |-> board.size,
     stones |-> [q \in (DOMAIN board.stones) \ {position} |-> board.stones[q]]]

allPossibleMoves(size) == {<<i, j>> : i \in 0..(size - 1), j \in 0..(size - 1)}

emptyPositions(board) == allPossibleMoves(board.size) \ DOMAIN board.stones

\* ---------------------------------------------------------------- adjacency
\* adjacentPositions without the subtraction of the position itself.
adjacentPositionsUnfiltered(board, position) ==
    LET size == board.size
        x == position[1]
        y == position[2]
        check(i) == Min(size - 1, Max(0, i))
    IN  { <<check(x), check(y + 1)>>,
          <<check(x), check(y - 1)>>,
          <<check(x + 1), check(y)>>,
          <<check(x - 1), check(y)>> }

adjacentPositions(board, position) ==
    LET size == board.size
        x == position[1]
        y == position[2]
        check(i) == Min(size - 1, Max(0, i))
    IN  { <<check(x), check(y + 1)>>,
          <<check(x), check(y - 1)>>,
          <<check(x + 1), check(y)>>,
          <<check(x - 1), check(y)>> } \ {position}

matchingAdjacentPositions(board, position, color) ==
    LET c == IF color = UNDEFINED THEN MapGet(board, position) ELSE color
    IN  {pos \in adjacentPositions(board, position) : MapGet(board, pos) = c}

\* ------------------------------------------------------------------- groups
\* groupStep forgetting queue.rest(): the positions waiting are lost.
groupStepDropsRest(board, found, queue, current) ==
    LET more_matching == matchingAdjacentPositions(board, current, UNDEFINED)
        found2 == found \cup {current}
    IN  [found |-> found2, queue |-> more_matching \ found2]

\* groupStep without subtract(found): positions found are queued again.
groupStepRequeues(board, found, queue, current) ==
    LET more_matching == matchingAdjacentPositions(board, current, UNDEFINED)
        found2 == found \cup {current}
    IN  [found |-> found2, queue |-> (queue \ {current}) \cup more_matching]

\* One iteration of the while loop of group, current being queue.first().
groupStep(board, found, queue, current) ==
    LET more_matching == matchingAdjacentPositions(board, current, UNDEFINED)
        found2 == found \cup {current}
    IN  [found |-> found2,
         queue |-> (queue \ {current}) \cup (more_matching \ found2)]

RECURSIVE groupLoop(_, _, _)
groupLoop(board, found, queue) ==
    IF queue = {}
    THEN found
    ELSE LET s == groupStep(board, found, queue, CHOOSE q \in queue : TRUE)
         IN  groupLoop(board, s.found, s.queue)

group(board, position) == groupLoop(board, {}, {position})

\* libertyCount concatenating instead of uniting: a liberty counts once for
\* every stone of the group it touches.
libertyCountWithRepeats(board, found) ==
    Cardinality({<<pos, l>> : pos \in found, l \in allPossibleMoves(board.size)}
                \cap {pl \in found \X allPossibleMoves(board.size) :
                         pl[2] \in matchingAdjacentPositions(board, pl[1], EMPTY)})

\* The reduce of liberties over the group found, and the size of its result.
libertyCount(board, found) ==
    Cardinality(UNION {matchingAdjacentPositions(board, pos, EMPTY) : pos \in found})

liberties(board, position) == libertyCount(board, group(board, position))

\* ------------------------------------------------------------------- colors
oppositeColor(color) ==
    IF color /= BLACK /\ color /= WHITE
    THEN MustPassInAColor
    ELSE IF color = BLACK THEN WHITE ELSE BLACK

\* ----------------------------------------------------------------- legality
\* isLegalMove looking for an adjacent group already without liberties.
isLegalMoveKillAtZero(board, position, color) ==
    LET will_have_liberty == liberties(MapSet(board, position, color), position) > 0
        will_kill_something ==
            \E pos \in matchingAdjacentPositions(board, position, oppositeColor(color)) :
                liberties(board, pos) = 0
    IN  will_have_liberty \/ will_kill_something

isLegalMove(board, position, color) ==
    LET will_have_liberty == liberties(MapSet(board, position, color), position) > 0
        will_kill_something ==
            \E pos \in matchingAdjacentPositions(board, position, oppositeColor(color)) :
                liberties(board, pos) = 1
    IN  will_have_liberty \/ will_kill_something

\* ------------------------------------------------------------------ capture
RECURSIVE removeMoves(_, _)
removeMoves(board, positions) ==
    IF positions = {}
    THEN board
    ELSE LET position == CHOOSE q \in positions : TRUE
         IN  removeMoves(MapDelete(board, position), positions \ {position})

\* killedBy taking the adjacent stone instead of its group.
killedByStoneOnly(board, position, color) ==
    UNION { IF liberties(board, pos) = 1 THEN {pos} ELSE {} :
              pos \in matchingAdjacentPositions(board, position, oppositeColor(color)) }

killedBy(board, position, color) ==
    UNION { IF liberties(board, pos) = 1 THEN group(board, pos) ELSE {} :
              pos \in matchingAdjacentPositions(board, position, oppositeColor(color)) }

\* addMove placing the stone without removing the killed groups.
addMoveWithoutCapture(board, position, color) ==
    IF ~isLegalMove(board, position, color)
    THEN Threw(NotAValidPosition)
    ELSE IF MapHas(board, position)
    THEN Threw(AlreadyAStoneThere)
    ELSE Returned(MapSet(board, position, color))

addMove(board, position, color) ==
    IF ~isLegalMove(board, position, color)
    THEN Threw(NotAValidPosition)
    ELSE IF MapHas(board, position)
    THEN Threw(AlreadyAStoneThere)
    ELSE Returned(MapSet(removeMoves(board, killedBy(board, position, color)),
                         position, color))

\* addMove writing the Map it was given.
argumentAfterInPlace(board, position, color) ==
    IF addMove(board, position, color).threw = ""
    THEN addMove(board, position, color).value
    ELSE board

\* The board passed to addMove, as it is once the call is over: set and
\* delete build new Maps, the argument is never written.
argumentAfter(board, position, color) == board

\* ==================================================================== state
VARIABLES
    pc,        \* where the caller is
    board,     \* the board the caller holds
    position,  \* the position of the last call
    color,     \* the color of the last call
    before,    \* the board passed to the last call, as it was when passed
    orig,      \* the board passed to the last call, as it is after the call
    result,    \* what the last call threw or returned
    koBoard,   \* the board before the last move if that move took exactly one stone
    found,     \* group: the positions found
    queue,     \* group: the frontier
    taken,     \* group: the positions taken from the frontier, in order
    answer     \* the value a finished query returned

vars == <<pc, board, position, color, before, orig, result, koBoard,
          found, queue, taken, answer>>

stoneCount(b) == Cardinality(DOMAIN b.stones)

\* ===================================================================== play
\* A game: emptyBoard(size), then addMove calls.  After a call the caller goes
\* on with the returned board, or with the board it passed when the call threw.
NoCall(b) ==
    /\ position = <<0, 0>>
    /\ color = BLACK
    /\ before = b
    /\ orig = b
    /\ result = Returned(b)

Init ==
    /\ pc = "idle"
    /\ \E n \in Sizes : board = emptyBoard(n).value
    /\ NoCall(board)
    /\ koBoard = NoBoard
    /\ found = {}
    /\ queue = {}
    /\ taken = <<>>
    /\ answer = 0

\* addMove refusing the move that restores the board before a capture of one
\* stone just made: the ko rule.
AddMoveKoEnforced(p, c) ==
    /\ pc = "idle"
    /\ stoneCount(board) < MaxStones
    /\ \E r0 \in {addMove(board, p, c)}, after \in {argumentAfter(board, p, c)} :
         \E r \in {IF r0.threw = "" /\ koBoard /= NoBoard /\ r0.value = koBoard
                    THEN Threw(NotAValidPosition) ELSE r0} :
           /\ pc' = "called"
           /\ position' = p
           /\ color' = c
           /\ before' = board
           /\ orig' = after
           /\ result' = r
           /\ board' = after
    /\ UNCHANGED <<koBoard, found, queue, taken, answer>>

\* The caller calls addMove(board, p, c).
AddMove(p, c) ==
    /\ pc = "idle"
    /\ stoneCount(board) < MaxStones
    /\ \E r \in {addMove(board, p, c)}, after \in {argumentAfter(board, p, c)} :
           /\ pc' = "called"
           /\ position' = p
           /\ color' = c
           /\ before' = board
           /\ orig' = after
           /\ result' = r
           /\ board' = after
    /\ UNCHANGED <<koBoard, found, queue, taken, answer>>

\* The caller takes the returned board, or keeps its own after a throw.
Continue ==
    /\ pc = "called"
    /\ pc' = "idle"
    /\ board' = IF result.threw = "" THEN result.value ELSE board
    /\ koBoard' = IF result.threw /= "" THEN koBoard
                  ELSE IF stoneCount(result.value) = stoneCount(before) THEN before
                  ELSE NoBoard
    /\ position' = <<0, 0>>
    /\ color' = BLACK
    /\ before' = board'
    /\ orig' = board'
    /\ result' = Returned(board')
    /\ UNCHANGED <<found, queue, taken, answer>>

Next ==
    \/ \E p \in allPossibleMoves(board.size), c \in Colors : AddMove(p, c)
    \/ Continue

Spec == Init /\ [][Next]_vars

\* ================================================================ adjacency
\* adjacentPositions on every position of every board size up to MaxAdjSize.
InitAdj ==
    /\ pc = "adjacent"
    /\ \E n \in 1..MaxAdjSize :
           /\ board = emptyBoard(n).value
           /\ position \in allPossibleMoves(n)
    /\ color = BLACK
    /\ before = board
    /\ orig = board
    /\ result = Returned(board)
    /\ koBoard = NoBoard
    /\ found = {}
    /\ queue = {}
    /\ taken = <<>>
    /\ answer = {}

AdjacentPositions ==
    /\ pc = "adjacent"
    /\ pc' = "adjacent done"
    /\ answer' = adjacentPositions(board, position)
    /\ UNCHANGED <<board, position, color, before, orig, result, koBoard,
                   found, queue, taken>>

NextAdj == AdjacentPositions

SpecAdj == InitAdj /\ [][NextAdj]_vars

\* =========================================================== group, liberties
\* group(board, position) run one iteration at a time, queue.first() being
\* any element of the queue, then the reduce of liberties over its result;
\* on any board of at most MaxGroupStones stones, from any position.
Boards(n) ==
    UNION { [D -> Colors] :
              D \in {E \in SUBSET allPossibleMoves(n) : Cardinality(E) <= MaxGroupStones} }

InitGroup ==
    /\ pc = "group"
    /\ \E n \in Sizes :
           /\ \E st \in Boards(n) : board = [size |-> n, stones |-> st]
           /\ position \in allPossibleMoves(n)
    /\ color = BLACK
    /\ before = board
    /\ orig = board
    /\ result = Returned(board)
    /\ koBoard = NoBoard
    /\ found = {}
    /\ queue = {position}
    /\ taken = [q \in {} |-> 0]
    /\ answer = 0

\* One iteration of the while loop.
GroupIterate ==
    /\ pc = "group"
    /\ queue /= {}
    /\ \E current \in queue :
          \E s \in {groupStep(board, found, queue, current)} :
             /\ found' = s.found
             /\ queue' = s.queue
             /\ taken' = [q \in (DOMAIN taken) \cup {current} |->
                             (IF q \in DOMAIN taken THEN taken[q] ELSE 0)
                           + (IF q = current THEN 1 ELSE 0)]
    /\ UNCHANGED <<pc, board, position, color, before, orig, result, koBoard,
                   answer>>

\* The loop is left, group returns found.
GroupReturn ==
    /\ pc = "group"
    /\ queue = {}
    /\ pc' = "group done"
    /\ UNCHANGED <<board, position, color, before, orig, result, koBoard,
                   found, queue, taken, answer>>

\* liberties reduces over the group returned.
Liberties ==
    /\ pc = "group done"
    /\ pc' = "liberties done"
    /\ answer' = libertyCount(board, found)
    /\ UNCHANGED <<board, position, color, before, orig, result, koBoard,
                   found, queue, taken>>

NextGroup == GroupIterate \/ GroupReturn \/ Liberties

SpecGroup == InitGroup /\ [][NextGroup]_vars

RECURSIVE Total(_)
Total(t) ==
    IF DOMAIN t = {} THEN 0
    ELSE LET q == CHOOSE r \in DOMAIN t : TRUE
         IN  t[q] + Total([r \in (DOMAIN t) \ {q} |-> t[r]])

\* ============================================================ the rules of Go
\* Stated from the rules, apart from the code above: what the claims compare
\* the code with.
Abs(i) == IF i < 0 THEN -i ELSE i

Orthogonal(p, q) == Abs(p[1] - q[1]) + Abs(p[2] - q[2]) = 1

Neighbours(b, p) == {q \in allPossibleMoves(b.size) : Orthogonal(p, q)}

Content(b, p) == IF p \in DOMAIN b.stones THEN b.stones[p] ELSE EMPTY

\* The positions a chain of orthogonally adjacent positions of p's content
\* links to p.
RECURSIVE Chain(_, _, _)
Chain(b, content, S) ==
    LET T == S \cup {q \in allPossibleMoves(b.size) :
                        Content(b, q) = content /\ \E s \in S : Orthogonal(s, q)}
    IN  IF T = S THEN S ELSE Chain(b, content, T)

Connected(b, p) == Chain(b, Content(b, p), {p})

\* The empty positions next to a stone of G.
LibertiesOf(b, G) ==
    {q \in allPossibleMoves(b.size) :
        Content(b, q) = EMPTY /\ \E s \in G : Orthogonal(s, q)}

Other(c) == IF c = BLACK THEN WHITE ELSE BLACK

Placed(b, p, c) ==
    [size |-> b.size,
     stones |-> [q \in (DOMAIN b.stones) \cup {p} |-> IF q = p THEN c ELSE b.stones[q]]]

\* The stones of the other color left without a liberty once c is at p.
Dead(b, p, c) ==
    LET placed == Placed(b, p, c)
    IN  {q \in DOMAIN placed.stones :
            /\ placed.stones[q] = Other(c)
            /\ LibertiesOf(placed, Connected(placed, q)) = {}}

Cleared(b, p, c) ==
    LET placed == Placed(b, p, c)
        dead == Dead(b, p, c)
    IN  [size |-> b.size,
         stones |-> [q \in (DOMAIN placed.stones) \ dead |-> placed.stones[q]]]

\* ==================================================================== claims

\* C1: addMove on a position that already holds a stone throws 'There is
\* already a stone there', never another error and never returns a board.
C1_OccupiedThrowsOccupied ==
    (pc = "called" /\ MapHas(before, position))
        => result.threw = AlreadyAStoneThere

\* C2: on a board reached by play, for an empty position p and a color c,
\* isLegalMove is true exactly when, after placing c at p and removing every
\* group of the other color left without liberties, the group of p has a
\* liberty; a placement without liberties is legal exactly when it captures
\* an adjacent group of the other color.
C2_LegalIffLibertyAfterCapture ==
    (pc = "called" /\ ~MapHas(before, position)) =>
        LET cleared == Cleared(before, position, color)
            placed == Placed(before, position, color)
            alive == LibertiesOf(cleared, Connected(cleared, position)) /= {}
            captures == \E q \in Dead(before, position, color) : Orthogonal(q, position)
            legal == isLegalMove(before, position, color)
        IN  /\ legal <=> alive
            /\ (result.threw = NotAValidPosition) <=> ~alive
            /\ LibertiesOf(placed, Connected(placed, position)) = {}
                   => (legal <=> captures)

C2_Witness ==
    /\ pc = "called"
    /\ ~MapHas(before, position)
    /\ result.threw = ""
    /\ LET placed == Placed(before, position, color)
       IN  LibertiesOf(placed, Connected(placed, position)) = {}

\* C3: a successful addMove(board, p, c) returns the board with c at p and
\* without exactly the stones of the other color whose group has no liberty
\* once c is at p; every other position and the size are as before.
C3_ResultIsPlacementMinusDead ==
    (pc = "called" /\ result.threw = "") =>
        LET new == result.value
            dead == Dead(before, position, color)
        IN  /\ new.size = before.size
            /\ Content(new, position) = color
            /\ (DOMAIN before.stones) \ (DOMAIN new.stones) = dead
            /\ \A q \in dead : Content(before, q) = Other(color)
            /\ \A q \in allPossibleMoves(before.size) \ (dead \cup {position}) :
                   Content(new, q) = Content(before, q)

C3_Witness ==
    /\ pc = "called"
    /\ result.threw = ""
    /\ \E q \in Dead(before, position, color) :
           Cardinality(Connected(before, q)) >= 2

C9_KoRecaptureAccepted ==
    (pc = "called" /\ koBoard /= NoBoard) =>
        LET q == position
            ps == (DOMAIN before.stones) \ (DOMAIN koBoard.stones)
        IN  ( /\ (DOMAIN koBoard.stones) \ (DOMAIN before.stones) = {q}
              /\ koBoard.stones[q] = color
              /\ \A p \in ps :
                     /\ Connected(before, p) = {p}
                     /\ LibertiesOf(before, {p}) = {q}
              /\ \A n \in Neighbours(before, q) \ ps :
                     Content(before, n) = Other(color)
                        => LibertiesOf(before, Connected(before, n)) /= {q} )
            => result = Returned(koBoard)

C9_Witness ==
    /\ pc = "called"
    /\ koBoard /= NoBoard
    /\ before.size = 3
    /\ before /= koBoard
    /\ result = Returned(koBoard)

\* C10: on every board reached by play (the empty board, and every board a
\* successful addMove returned, once the caller holds it) every stone
\* belongs to a group with at least one liberty.
C10_EveryGroupHasLiberty ==
    pc = "idle" =>
        \A p \in DOMAIN board.stones :
            /\ liberties(board, p) >= 1
            /\ LibertiesOf(board, Connected(board, p)) /= {}

C10_Witness ==
    /\ pc = "idle"
    /\ koBoard /= NoBoard
    /\ \E p \in DOMAIN board.stones : liberties(board, p) = 1

\* C5: adjacentPositions is the set of orthogonal neighbours on the board:
\* never the position itself nor a diagonal; 2 positions at a corner, 3 at
\* another edge position, 4 inside, none on a board of size 1.
C5_AdjacentAreOrthogonalNeighbours ==
    pc = "adjacent done" =>
        LET n == board.size
            x == position[1]
            y == position[2]
            onEdgeX == x = 0 \/ x = n - 1
            onEdgeY == y = 0 \/ y = n - 1
        IN  /\ answer = Neighbours(board, position)
            /\ position \notin answer
            /\ \A q \in answer : q \in allPossibleMoves(n) /\ (q[1] = x \/ q[2] = y)
            /\ n = 1 => answer = {}
            /\ (n >= 2 /\ onEdgeX /\ onEdgeY) => Cardinality(answer) = 2
            /\ (n >= 3 /\ onEdgeX /= onEdgeY) => Cardinality(answer) = 3
            /\ (n >= 3 /\ ~onEdgeX /\ ~onEdgeY) => Cardinality(answer) = 4

C5_Witness ==
    /\ pc = "adjacent done"
    /\ board.size = 3
    /\ position = <<2, 1>>
    /\ answer = {<<2, 0>>, <<2, 2>>, <<1, 1>>}

\* C6: group(board, p) is the set of positions a chain of orthogonally
\* adjacent positions of p's content links to p: it holds p, nothing of
\* another content, is maximal and takes in nothing by a diagonal alone,
\* whichever element of the frontier each iteration takes.
C6_GroupIsConnectedComponent ==
    pc \in {"group done", "liberties done"} =>
        /\ found = Connected(board, position)
        /\ position \in found
        /\ \A q \in found : Content(board, q) = Content(board, position)
        /\ \A q \in found : \A n \in Neighbours(board, q) :
               Content(board, n) = Content(board, position) => n \in found
        /\ \A q \in found \ {position} : \E n \in found : Orthogonal(n, q)

C6_Witness ==
    /\ pc = "group done"
    /\ Content(board, position) = BLACK
    /\ Cardinality(found) = 2
    /\ \E q \in (DOMAIN board.stones) \ found :
           /\ board.stones[q] = BLACK
           /\ \E s \in found : Abs(s[1] - q[1]) = 1 /\ Abs(s[2] - q[2]) = 1

\* C7: liberties(board, p), p holding a stone, is the number of distinct
\* empty positions next to a stone of the group of p; a lone stone on a
\* board of size 3 or more has 4 inside, 3 on an edge, 2 in a corner.
C7_LibertiesCountDistinctEmptyNeighbours ==
    (pc = "liberties done" /\ MapHas(board, position)) =>
        LET n == board.size
            onEdgeX == position[1] = 0 \/ position[1] = n - 1
            onEdgeY == position[2] = 0 \/ position[2] = n - 1
        IN  /\ answer = Cardinality(LibertiesOf(board, Connected(board, position)))
            /\ answer >= 0
            /\ (stoneCount(board) = 1 /\ n >= 3) =>
                   answer = (IF onEdgeX /\ onEdgeY THEN 2
                             ELSE IF onEdgeX \/ onEdgeY THEN 3 ELSE 4)

C7_Witness ==
    /\ pc = "liberties done"
    /\ MapHas(board, position)
    /\ \E q \in LibertiesOf(board, found) :
           Cardinality({s \in found : Orthogonal(s, q)}) >= 2
    /\ answer = 3

\* C8: in the loop of group the queue and found are disjoint, no position is
\* taken from the queue twice, and after size*size iterations at most the
\* queue is empty.
C8_TraversalBounded ==
    /\ queue \cap found = {}
    /\ \A q \in DOMAIN taken : taken[q] = 1
    /\ DOMAIN taken = found
    /\ Total(taken) <= board.size * board.size
    /\ Total(taken) = board.size * board.size => queue = {}
    /\ pc /= "group" => queue = {}

C8_Witness ==
    /\ pc = "group done"
    /\ board.size = 3
    /\ Total(taken) = 9

====
